---- MODULE Spec2Model ----
(***************************************************************************)
(* netpwn (src/src/main.rs): bind a loopback listener, accept one          *)
(* connection, then replace the process image either by the target program *)
(* with its stdio on the connection, or by gdb with a compile-code         *)
(* directive that rebinds the debuggee's stdio by raw dup2 system calls.   *)
(*                                                                         *)
(* Text is modelled as a sequence of pieces.  Command-line strings (the    *)
(* env spec, keys, values) are sequences of one-character strings.         *)
(* Arguments handed to the new image are sequences of tokens, records of   *)
(* one shape [k, s, n, w], so that any two of them can be compared.        *)
(***************************************************************************)
EXTENDS Integers, Sequences, FiniteSets, TLC

\* ---------------------------------------------------------------- bounds
\* longest env spec string drawn for --env
MaxEnvLen == 5
\* largest descriptor number accept may return
MaxFd == 12
\* remote peers that try to connect during one run
MaxClients == 2
\* byte values besides 0, 1, 2 and the magic's own drawn for a file header
MaxOther == 1

\* ------------------------------------------------------------ option type
None == [some |-> FALSE, v |-> <<>>]
Some(x) == [some |-> TRUE, v |-> x]

\* ----------------------------------------------------------------- tokens
Txt(s) == [k |-> "text", s |-> s, n |-> 0, w |-> ""]
NL == [k |-> "nl", s |-> "\n", n |-> 0, w |-> ""]
\* "mov<w> $<n>, %%<dst>\n"
MovImm(w, n, dst) == [k |-> "mov_imm", s |-> dst, n |-> n, w |-> w]
\* "mov<w> %<n>, %%<dst>\n": asm operand number n
MovOp(w, n, dst) == [k |-> "mov_op", s |-> dst, n |-> n, w |-> w]
\* "syscall\n"
SyscallInsn == [k |-> "insn", s |-> "syscall", n |-> 0, w |-> ""]
\* :: "<c>"(<var>) : the input operand 0 and its register constraint
InOperand(c, var) == [k |-> "in_operand", s |-> c, n |-> 0, w |-> var]

\* each character of a string as a text token (format!'s {} on a &str)
Lift(str) == [i \in 1..Len(str) |-> Txt(str[i])]

AMD64_TEMPLATE ==
    << NL, Txt("void _gdb_expr(void) {"),
       NL, Txt("__asm__ ("),
       NL, MovImm("q", 33, "rax"),
       NL, MovOp("l", 0, "edi"),
       NL, MovImm("q", 0, "rsi"),
       NL, SyscallInsn,
       NL, MovImm("q", 33, "rax"),
       NL, MovOp("l", 0, "edi"),
       NL, MovImm("q", 1, "rsi"),
       NL, SyscallInsn,
       NL, MovImm("q", 33, "rax"),
       NL, MovOp("l", 0, "edi"),
       NL, MovImm("q", 2, "rsi"),
       NL, SyscallInsn,
       NL, InOperand("b", "fd"), Txt(": %rax, %rdi, %rsi, %rcx"),
       NL, Txt(");"),
       NL, Txt("}"),
       NL >>

X86_TEMPLATE ==
    << NL, Txt("void _gdb_expr(void) {"),
       NL, Txt("__asm__ ("),
       NL, MovImm("l", 63, "eax"),
       NL, MovOp("l", 0, "ebx"),
       NL, MovImm("l", 0, "ecx"),
       NL, SyscallInsn,
       NL, MovImm("l", 63, "eax"),
       NL, MovOp("l", 0, "ebx"),
       NL, MovImm("l", 1, "ecx"),
       NL, SyscallInsn,
       NL, MovImm("l", 63, "eax"),
       NL, MovOp("l", 0, "ebx"),
       NL, MovImm("l", 2, "ecx"),
       NL, SyscallInsn,
       NL, InOperand("b", "fd"), Txt(": %eax, %ebx, %ecx"),
       NL, Txt(");"),
       NL, Txt("}"),
       NL >>

\* the constant a template name refers to
TemplateText(name) ==
    IF name = "X86_TEMPLATE" THEN X86_TEMPLATE
    ELSE IF name = "AMD64_TEMPLATE" THEN AMD64_TEMPLATE
    ELSE <<>>

\* ------------------------------------------------------------ get_template
ELF_MAGIC == <<127, 69, 76, 70>>

\* buf: [u8; 5] = [0; 5]; file.read(&mut buf): the bytes the file has, the
\* rest of the buffer left zero
ReadPrefix(bytes) == [i \in 1..5 |-> IF i <= Len(bytes) THEN bytes[i] ELSE 0]

\* variant: the class byte is read without the magic being compared
get_template_nomagic(buf) ==
    IF buf[5] = 1 THEN "X86_TEMPLATE"
    ELSE IF buf[5] = 2 THEN "AMD64_TEMPLATE"
    ELSE "panic"

\* the template's name, or "panic" for panic!("Unknown executable file type")
get_template(buf) ==
    IF SubSeq(buf, 1, 4) = ELF_MAGIC
    THEN IF buf[5] = 1 THEN "X86_TEMPLATE"
         ELSE IF buf[5] = 2 THEN "AMD64_TEMPLATE"
         ELSE "panic"
    ELSE "panic"

\* -------------------------------------------------------- env spec parsing
RECURSIVE SplitFrom(_, _, _, _)
SplitFrom(s, sep, i, cur) ==
    IF i > Len(s) THEN <<cur>>
    ELSE IF s[i] = sep THEN <<cur>> \o SplitFrom(s, sep, i + 1, <<>>)
    ELSE SplitFrom(s, sep, i + 1, Append(cur, s[i]))

\* str::split(sep): the pieces between separators, empty ones included
split(s, sep) == SplitFrom(s, sep, 1, <<>>)

RECURSIVE trim_start(_)
trim_start(s) == IF s # <<>> /\ Head(s) = " " THEN trim_start(Tail(s)) ELSE s

RECURSIVE trim_end(_)
trim_end(s) ==
    IF s # <<>> /\ s[Len(s)] = " " THEN trim_end(SubSeq(s, 1, Len(s) - 1)) ELSE s

\* str::trim
trim(s) == trim_end(trim_start(s))

\* x.split('=').map(|x| x.trim())
EntryPieces(x) == LET p == split(x, "=") IN [i \in 1..Len(p) |-> trim(p[i])]

\* variant: only an entry with no '=' is rejected
EntryPanicsLoose(x) == Len(EntryPieces(x)) < 2

\* split.clone().count() != 2
EntryPanics(x) == Len(EntryPieces(x)) # 2

\* the closure panics on some entry while the vector is collected
ParsePanics(e) ==
    /\ e.some
    /\ \E i \in 1..Len(split(e.v, ";")) : EntryPanics(split(e.v, ";")[i])

\* env_vars: Vec<(&str, &str)>
parse_env(e) ==
    IF ~e.some THEN <<>>
    ELSE LET entries == split(e.v, ";")
         IN [i \in 1..Len(entries) |->
                <<EntryPieces(entries[i])[1], EntryPieces(entries[i])[2]>>]

\* ------------------------------------------------------------- formatting
Digit == <<"0", "1", "2", "3", "4", "5", "6", "7", "8", "9">>

\* Display for an integer: its decimal digits
RECURSIVE to_string(_)
to_string(n) ==
    IF n < 10 THEN <<Txt(Digit[n + 1])>>
    ELSE to_string(n \div 10) \o <<Txt(Digit[(n % 10) + 1])>>

\* str::replace("\n", "")
strip_newlines(t) == SelectSeq(t, LAMBDA x : x.k # "nl")

\* ------------------------------------------------------- building the command
ProgramPath == <<".", "/", "t">>
GdbPaths == {<<"/", "u", "/", "g", "d", "b">>, <<"/", "o", "/", "g", "d", "b">>}

NoCmd == [program |-> <<>>, args |-> <<>>, stdin |-> -1, stdout |-> -1,
          stderr |-> -1, envs |-> <<>>]

\* Command::new(path): no arguments, inherited stdio, no environment changes
CommandNew(path) == [NoCmd EXCEPT !.program = Lift(path)]

\* format!("set env {}={}", env_var.0, env_var.1)
SetEnvDirective(pair) ==
    <<Txt("set env ")>> \o Lift(pair[1]) \o <<Txt("=")>> \o Lift(pair[2])

RECURSIVE EnvDirectives(_)
EnvDirectives(pairs) ==
    IF pairs = <<>> THEN <<>>
    ELSE << <<Txt("-ex")>>, SetEnvDirective(Head(pairs)) >>
         \o EnvDirectives(Tail(pairs))

\* variant: the template is appended without replace("\n", "")
FragmentKeepNewlines(fd, template) ==
    <<Txt("int fd = ")>> \o to_string(fd) \o <<Txt(";")>> \o TemplateText(template)

\* format!("int fd = {};", client.as_raw_fd()) + syscall_template.replace("\n", "")
Fragment(fd, template) ==
    <<Txt("int fd = ")>> \o to_string(fd) \o <<Txt(";")>>
        \o strip_newlines(TemplateText(template))

\* format!("compile code -raw -- {}", fragment)
CompileDirective(fd, template) ==
    <<Txt("compile code -raw -- ")>> \o Fragment(fd, template)

\* variant: the target path is added before the directives
GdbArgsTargetFirst(pairs, fd, template, prog, extra) ==
    << Lift(prog) >>
    \o EnvDirectives(pairs)
    \o << <<Txt("-ex")>>, <<Txt("start")>>,
          <<Txt("-ex")>>, CompileDirective(fd, template) >>
    \o (IF extra.some THEN << <<Txt("--")>>, Lift(extra.v) >> ELSE <<>>)

\* the argument list of lines 93-110
GdbArgs(pairs, fd, template, prog, extra) ==
    EnvDirectives(pairs)
    \o << <<Txt("-ex")>>, <<Txt("start")>>,
          <<Txt("-ex")>>, CompileDirective(fd, template),
          Lift(prog) >>
    \o (IF extra.some THEN << <<Txt("--")>>, Lift(extra.v) >> ELSE <<>>)

\* Command::envs: each pair inserted in turn, a later one replacing an
\* earlier one of the same key
RECURSIVE envs(_, _)
envs(map, pairs) ==
    IF pairs = <<>> THEN map
    ELSE LET p == Head(pairs)
         IN envs([x \in (DOMAIN map) \cup {p[1]} |->
                     IF x = p[1] THEN p[2] ELSE map[x]], Tail(pairs))

\* variant: stderr is left inherited
DirectCommandNoStderr(prog, fd, pairs) ==
    [CommandNew(prog) EXCEPT !.stdin = fd, !.stdout = fd,
                             !.envs = envs(<<>>, pairs)]

\* the command of lines 114-120
DirectCommand(prog, fd, pairs) ==
    [CommandNew(prog) EXCEPT !.stdin = fd, !.stdout = fd, !.stderr = fd,
                             !.envs = envs(<<>>, pairs)]

NoImage == [program |-> <<>>, argv |-> <<>>, stdio |-> <<>>, envs |-> <<>>,
            kept |-> {}]

\* what a descriptor slot of the new image refers to: the connection when the
\* command wires the slot to the connected descriptor, else what the old
\* image had there
Slot(cfg, fd) == IF cfg = fd /\ fd # -1 THEN "conn" ELSE "inherited"

\* CommandExt::exec on success: argv[0] is the program, the stdio slots are
\* set up, and of the other descriptors those not close-on-exec survive
ExecImage(c, fd, coe) ==
    [program |-> c.program,
     argv |-> <<c.program>> \o c.args,
     stdio |-> <<Slot(c.stdin, fd), Slot(c.stdout, fd), Slot(c.stderr, fd)>>,
     envs |-> c.envs,
     kept |-> IF coe THEN {} ELSE {fd}]

\* ------------------------------------------------------------------ state
VARIABLES
    env,              \* --env: None or Some(string)
    gdb,              \* --gdb
    gdb_args,         \* GDBARGS: None or Some(string)
    file,             \* the target program's file: None (cannot be opened) or Some(bytes)
    pc,               \* where main/run stands
    env_vars,         \* the parsed pairs
    bound,            \* the listener exists
    pending,          \* peers that connected and were not accepted
    accepted,         \* connections accept returned
    client,           \* the connected descriptor's number, -1 before accept
    cloexec,          \* FD_CLOEXEC of the connected descriptor
    syscall_template, \* get_template's result
    gdb_path,         \* which::which's result
    cmd,              \* the Command being built
    image,            \* the image that replaced the process
    exec_err,         \* the error exec returned
    outcome,          \* how the process ended
    exit_code,        \* its exit status, -1 while it has none
    trace,            \* the operations executed so far, in order
    cpu,              \* the injected routine: "idle", "running", "done", "fault"
    class,            \* EI_CLASS of the debuggee the routine runs in
    ip,               \* index of the routine's next instruction
    regs,             \* the debuggee's registers
    calls             \* the kernel calls the routine made

progvars == <<env, gdb, gdb_args, file, pc, env_vars, bound, pending, accepted,
              client, cloexec, syscall_template, gdb_path, cmd, image,
              exec_err, outcome, exit_code, trace>>
cpuvars == <<cpu, class, ip, regs, calls>>
vars == <<progvars, cpuvars>>

\* ------------------------------------------------------------------ inputs
Alphabet == {"A", "=", ";", " "}
EnvStrings == UNION {[1..n -> Alphabet] : n \in 0..MaxEnvLen}
\* every env spec up to the bound
EnvInputs == {None} \cup {Some(s) : s \in EnvStrings}
\* no --env, "A=1;B=2", "A=1;A=2", " A = 1 ", "A=1;B", ""
EnvSamples ==
    {None,
     Some(<<"A", "=", "1", ";", "B", "=", "2">>),
     Some(<<"A", "=", "1", ";", "A", "=", "2">>),
     Some(<<" ", "A", " ", "=", " ", "1", " ">>),
     Some(<<"A", "=", "1", ";", "B">>),
     Some(<<>>)}
GdbArgsInputs == {None, Some(<<>>), Some(<<"-", "q">>)}
Fds == 4..MaxFd
\* header bytes: those get_template tells apart, and some others
Bytes == {0, 1, 2, 69, 70, 76, 127} \cup (3..(2 + MaxOther))
Elf(c) == ELF_MAGIC \o <<c>>
\* a 32-bit and a 64-bit executable, an unknown class, a script, a 4-byte
\* file, and a file that cannot be opened
Files == {Some(Elf(1)), Some(Elf(2)), Some(Elf(3)), Some(<<35, 33, 47, 98, 105>>),
          Some(ELF_MAGIC), None}

\* ------------------------------------------------------------------- main
Start ==
    /\ pc = "main" /\ env_vars = <<>> /\ bound = FALSE /\ pending = 0
    /\ accepted = 0 /\ client = -1 /\ cloexec = TRUE
    /\ syscall_template = "none" /\ gdb_path = <<>> /\ cmd = NoCmd
    /\ image = NoImage /\ exec_err = "none" /\ outcome = "running"
    /\ exit_code = -1 /\ trace = <<>>

CpuIdle ==
    /\ cpu = "idle" /\ class = 0 /\ ip = 0 /\ calls = <<>>
    /\ regs = [r \in {"ax", "bx", "cx", "di", "si", "bp"} |-> 0]

Init ==
    /\ env \in EnvSamples /\ gdb \in BOOLEAN /\ gdb_args \in GdbArgsInputs
    /\ file \in Files
    /\ Start /\ CpuIdle

inputs == <<env, gdb, gdb_args, file>>

\* a panic: the process ends with status 101
Panic(kind) ==
    /\ pc' = "panicked" /\ outcome' = kind /\ exit_code' = 101

\* lines 173-188, every entry well-formed
ParseEnvOk ==
    /\ pc = "main" /\ ~ParsePanics(env)
    /\ env_vars' = parse_env(env)
    /\ pc' = "bind"
    /\ trace' = Append(trace, "parse_env")
    /\ UNCHANGED <<inputs, bound, pending, accepted, client, cloexec,
                   syscall_template, gdb_path, cmd, image, exec_err, outcome,
                   exit_code, cpuvars>>

\* lines 179-181: panic!("Invalid environment variable passed")
ParseEnvPanic ==
    /\ pc = "main" /\ ParsePanics(env)
    /\ Panic("MalformedEnvSpec")
    /\ trace' = Append(trace, "parse_env")
    /\ UNCHANGED <<inputs, env_vars, bound, pending, accepted, client, cloexec,
                   syscall_template, gdb_path, cmd, image, exec_err, cpuvars>>

\* line 79, bind succeeds
BindOk ==
    /\ pc = "bind"
    /\ bound' = TRUE
    /\ pc' = "accept"
    /\ trace' = Append(trace, "bind")
    /\ UNCHANGED <<inputs, env_vars, pending, accepted, client, cloexec,
                   syscall_template, gdb_path, cmd, image, exec_err, outcome,
                   exit_code, cpuvars>>

\* line 79, bind fails: run returns Err and main's unwrap (line 190) panics
BindFail ==
    /\ pc = "bind"
    /\ Panic("BindFailure")
    /\ trace' = Append(trace, "bind")
    /\ UNCHANGED <<inputs, env_vars, bound, pending, accepted, client, cloexec,
                   syscall_template, gdb_path, cmd, image, exec_err, cpuvars>>

\* the states in which the listener is open
ListenerOpen ==
    bound /\ pc \in {"accept", "get_template", "clear_cloexec", "which",
                     "build_gdb", "direct", "exec"}

\* a remote peer connects to the listening port
Connect ==
    /\ ListenerOpen
    /\ pending + accepted < MaxClients
    /\ pending' = pending + 1
    /\ UNCHANGED <<inputs, pc, env_vars, bound, accepted, client, cloexec,
                   syscall_template, gdb_path, cmd, image, exec_err, outcome,
                   exit_code, trace, cpuvars>>

\* variant: the listener is polled again after a connection
AfterAcceptLoop == "accept"

\* line 82: the branch taken once accept has returned
AfterAccept == IF gdb THEN "get_template" ELSE "direct"

\* line 80, accept returns a connection (the socket is created close-on-exec)
AcceptOk ==
    /\ pc = "accept" /\ pending > 0
    /\ \E fd \in Fds : client' = fd
    /\ cloexec' = TRUE
    /\ accepted' = accepted + 1
    /\ pending' = pending - 1
    /\ pc' = AfterAccept
    /\ trace' = Append(trace, "accept")
    /\ UNCHANGED <<inputs, env_vars, bound, syscall_template, gdb_path, cmd,
                   image, exec_err, outcome, exit_code, cpuvars>>

\* line 80, accept fails: unwrap panics
AcceptFail ==
    /\ pc = "accept"
    /\ Panic("AcceptFailure")
    /\ trace' = Append(trace, "accept_failed")
    /\ UNCHANGED <<inputs, env_vars, bound, pending, accepted, client, cloexec,
                   syscall_template, gdb_path, cmd, image, exec_err, cpuvars>>

\* line 54: File::open(path).unwrap() panics
GetTemplateOpenFail ==
    /\ pc = "get_template" /\ ~file.some
    /\ Panic("OpenFailure")
    /\ trace' = Append(trace, "get_template")
    /\ UNCHANGED <<inputs, env_vars, bound, pending, accepted, client, cloexec,
                   syscall_template, gdb_path, cmd, image, exec_err, cpuvars>>

\* lines 83, 53-66: a template is returned
GetTemplateOk ==
    /\ pc = "get_template" /\ file.some
    /\ get_template(ReadPrefix(file.v)) # "panic"
    /\ syscall_template' = get_template(ReadPrefix(file.v))
    /\ pc' = "clear_cloexec"
    /\ trace' = Append(trace, "get_template")
    /\ UNCHANGED <<inputs, env_vars, bound, pending, accepted, client, cloexec,
                   gdb_path, cmd, image, exec_err, outcome, exit_code, cpuvars>>

\* line 69: panic!("Unknown executable file type")
GetTemplatePanic ==
    /\ pc = "get_template" /\ file.some
    /\ get_template(ReadPrefix(file.v)) = "panic"
    /\ Panic("UnsupportedExecutable")
    /\ trace' = Append(trace, "get_template")
    /\ UNCHANGED <<inputs, env_vars, bound, pending, accepted, client, cloexec,
                   syscall_template, gdb_path, cmd, image, exec_err, cpuvars>>

\* lines 86-88: fcntl(fd, F_SETFD, 0)
ClearCloexec ==
    /\ pc = "clear_cloexec"
    /\ cloexec' = FALSE
    /\ pc' = "which"
    /\ trace' = Append(trace, "clear_cloexec")
    /\ UNCHANGED <<inputs, env_vars, bound, pending, accepted, client,
                   syscall_template, gdb_path, cmd, image, exec_err, outcome,
                   exit_code, cpuvars>>

\* line 90: which::which("gdb") finds the debugger
WhichOk ==
    /\ pc = "which"
    /\ \E p \in GdbPaths : gdb_path' = p
    /\ pc' = "build_gdb"
    /\ trace' = Append(trace, "which")
    /\ UNCHANGED <<inputs, env_vars, bound, pending, accepted, client, cloexec,
                   syscall_template, cmd, image, exec_err, outcome, exit_code,
                   cpuvars>>

\* line 90: expect("gdb is not installed") panics
WhichFail ==
    /\ pc = "which"
    /\ Panic("DebuggerNotFound")
    /\ trace' = Append(trace, "which")
    /\ UNCHANGED <<inputs, env_vars, bound, pending, accepted, client, cloexec,
                   syscall_template, gdb_path, cmd, image, exec_err, cpuvars>>

\* lines 91-112
BuildGdbCmd ==
    /\ pc = "build_gdb"
    /\ cmd' = [CommandNew(gdb_path) EXCEPT
                 !.args = GdbArgs(env_vars, client, syscall_template,
                                  ProgramPath, gdb_args)]
    /\ pc' = "exec"
    /\ trace' = Append(trace, "build_gdb")
    /\ UNCHANGED <<inputs, env_vars, bound, pending, accepted, client, cloexec,
                   syscall_template, gdb_path, image, exec_err, outcome,
                   exit_code, cpuvars>>

\* lines 114-122
BuildDirectCmd ==
    /\ pc = "direct"
    /\ cmd' = DirectCommand(ProgramPath, client, env_vars)
    /\ pc' = "exec"
    /\ trace' = Append(trace, "build_direct")
    /\ UNCHANGED <<inputs, env_vars, bound, pending, accepted, client, cloexec,
                   syscall_template, gdb_path, image, exec_err, outcome,
                   exit_code, cpuvars>>

\* line 124: exec replaces the process image and never returns
ExecOk ==
    /\ pc = "exec"
    /\ image' = ExecImage(cmd, client, cloexec)
    /\ pc' = "replaced"
    /\ outcome' = "replaced"
    /\ trace' = Append(trace, "exec")
    /\ UNCHANGED <<inputs, env_vars, bound, pending, accepted, client, cloexec,
                   syscall_template, gdb_path, cmd, exec_err, exit_code,
                   cpuvars>>

ExecErrors == {"ENOENT", "EACCES"}

\* how run ends once exec has returned its error
AfterExecErr(e) == [outcome |-> "Ok", exit_code |-> 0]

\* lines 124-126 and 190: exec returns an io::Error, the value is dropped,
\* run returns Ok(()), unwrap succeeds and main returns
ExecFail ==
    /\ pc = "exec"
    /\ \E e \in ExecErrors :
         /\ exec_err' = e
         /\ outcome' = AfterExecErr(e).outcome
         /\ exit_code' = AfterExecErr(e).exit_code
    /\ pc' = "exited"
    /\ trace' = Append(trace, "exec")
    /\ UNCHANGED <<inputs, env_vars, bound, pending, accepted, client, cloexec,
                   syscall_template, gdb_path, cmd, image, cpuvars>>

Next ==
    \/ ParseEnvOk \/ ParseEnvPanic
    \/ BindOk \/ BindFail
    \/ Connect
    \/ AcceptOk \/ AcceptFail
    \/ GetTemplateOpenFail \/ GetTemplateOk \/ GetTemplatePanic
    \/ ClearCloexec
    \/ WhichOk \/ WhichFail
    \/ BuildGdbCmd \/ BuildDirectCmd
    \/ ExecOk \/ ExecFail

Spec == Init /\ [][Next]_vars

\* the same program, started on every env spec up to the bound and on the samples
InitEnv ==
    /\ env \in EnvInputs \cup EnvSamples /\ gdb \in BOOLEAN /\ gdb_args = None
    /\ file \in {Some(Elf(2)), Some(Elf(3)), None}
    /\ Start /\ CpuIdle

SpecEnv == InitEnv /\ [][Next]_vars

\* the architecture detector alone: the state after accept on the debug
\* path, over every 5-byte file and a file that cannot be opened
InitDetect ==
    /\ env = None /\ gdb = TRUE /\ gdb_args = None
    /\ file \in {None} \cup {Some(b) : b \in [1..5 -> Bytes]}
    /\ pc = "get_template" /\ env_vars = <<>> /\ bound = TRUE /\ pending = 0
    /\ accepted = 1 /\ client = 4 /\ cloexec = TRUE
    /\ syscall_template = "none" /\ gdb_path = <<>> /\ cmd = NoCmd
    /\ image = NoImage /\ exec_err = "none" /\ outcome = "running"
    /\ exit_code = -1 /\ trace = <<"parse_env", "bind", "accept">>
    /\ CpuIdle

NextDetect == GetTemplateOpenFail \/ GetTemplateOk \/ GetTemplatePanic

SpecDetect == InitDetect /\ [][NextDetect]_vars

\* ------------------------------------------- the routine, run in the debuggee
\* gdb's "compile code -raw" compiles the fragment and runs _gdb_expr in the
\* debuggee, whose architecture is the target file's class.

\* the argument of the image that is the compile directive, without its prefix
InjectedFragment(img) ==
    LET i == CHOOSE j \in 1..Len(img.argv) :
                 /\ img.argv[j] # <<>>
                 /\ Head(img.argv[j]) = Txt("compile code -raw -- ")
    IN Tail(img.argv[i])

HasFragment(img) ==
    \E j \in 1..Len(img.argv) :
        img.argv[j] # <<>> /\ Head(img.argv[j]) = Txt("compile code -raw -- ")

DigitVal(c) == CHOOSE d \in 0..9 : Digit[d + 1] = c
IsDigit(c) == \E d \in 0..9 : Digit[d + 1] = c

RECURSIVE ParseInt(_, _, _)
ParseInt(t, i, acc) ==
    IF i > Len(t) \/ ~IsDigit(t[i].s) THEN acc
    ELSE ParseInt(t, i + 1, acc * 10 + DigitVal(t[i].s))

\* the value the declaration "int fd = <digits>;" gives fd
DeclaredFd(frag) == ParseInt(frag, 2, 0)

\* the instructions of the asm statement, in order
Insns(frag) == SelectSeq(frag, LAMBDA t : t.k \in {"mov_imm", "mov_op", "insn"})

\* the register a machine constraint puts operand 0 in
OperandReg(frag) ==
    LET c == SelectSeq(frag, LAMBDA t : t.k = "in_operand")[1].s
    IN IF c = "b" THEN "bx" ELSE IF c = "a" THEN "ax" ELSE IF c = "c" THEN "cx"
       ELSE "dx"

\* the register file: an e- or r-prefixed name is the same register
Canon(r) ==
    IF r \in {"rax", "eax"} THEN "ax" ELSE IF r \in {"rbx", "ebx"} THEN "bx"
    ELSE IF r \in {"rcx", "ecx"} THEN "cx" ELSE IF r \in {"rdi", "edi"} THEN "di"
    ELSE IF r \in {"rsi", "esi"} THEN "si" ELSE "bp"

\* values a register the routine did not set may hold
Junk == {7, 8}

Routine == Insns(InjectedFragment(image))

\* the compiled function is entered: operand 0 (fd) is loaded in its register
RoutineStart ==
    /\ pc = "replaced" /\ cpu = "idle" /\ HasFragment(image)
    /\ class' = file.v[5]
    /\ \E j \in Junk :
         regs' = [r \in DOMAIN regs |->
                    IF r = OperandReg(InjectedFragment(image))
                    THEN DeclaredFd(InjectedFragment(image)) ELSE j]
    /\ ip' = 1
    /\ cpu' = "running"
    /\ UNCHANGED <<progvars, calls>>

AtInsn(kind) ==
    /\ cpu = "running" /\ ip <= Len(Routine) /\ Routine[ip].k = kind

StepMovImm ==
    /\ AtInsn("mov_imm")
    /\ regs' = [regs EXCEPT ![Canon(Routine[ip].s)] = Routine[ip].n]
    /\ ip' = ip + 1
    /\ UNCHANGED <<progvars, cpu, class, calls>>

StepMovOp ==
    /\ AtInsn("mov_op")
    /\ regs' = [regs EXCEPT ![Canon(Routine[ip].s)] =
                                regs[OperandReg(InjectedFragment(image))]]
    /\ ip' = ip + 1
    /\ UNCHANGED <<progvars, cpu, class, calls>>

\* syscall in 64-bit mode: number in rax, arguments in rdi, rsi; the result
\* is left in rax and rcx is overwritten
StepSyscall64 ==
    /\ AtInsn("insn") /\ class = 2
    /\ calls' = Append(calls, [nr |-> regs["ax"], a1 |-> regs["di"],
                               a2 |-> regs["si"], via |-> Routine[ip].s])
    /\ \E j \in Junk : \E r \in {regs["si"], -9} :
         regs' = [regs EXCEPT !["ax"] = r, !["cx"] = j]
    /\ ip' = ip + 1
    /\ UNCHANGED <<progvars, cpu, class>>

\* syscall in 32-bit code, where the processor has it: number in eax,
\* arguments in ebx, ebp (ecx is overwritten by the instruction itself)
StepSyscall32Compat ==
    /\ AtInsn("insn") /\ class = 1
    /\ calls' = Append(calls, [nr |-> regs["ax"], a1 |-> regs["bx"],
                               a2 |-> regs["bp"], via |-> Routine[ip].s])
    /\ \E j \in Junk : \E r \in {regs["bp"], -9} :
         regs' = [regs EXCEPT !["ax"] = r, !["cx"] = j]
    /\ ip' = ip + 1
    /\ UNCHANGED <<progvars, cpu, class>>

\* syscall in 32-bit code, where the processor has not: invalid opcode
StepSyscall32Fault ==
    /\ AtInsn("insn") /\ class = 1
    /\ cpu' = "fault"
    /\ UNCHANGED <<progvars, class, ip, regs, calls>>

RoutineEnd ==
    /\ cpu = "running" /\ ip > Len(Routine)
    /\ cpu' = "done"
    /\ UNCHANGED <<progvars, class, ip, regs, calls>>

\* the state after gdb replaced the process, for either class
InitRoutine ==
    /\ env = None /\ gdb = TRUE /\ gdb_args = None
    /\ file \in {Some(Elf(1)), Some(Elf(2))}
    /\ pc = "replaced" /\ env_vars = <<>> /\ bound = TRUE /\ pending = 0
    /\ accepted = 1 /\ client \in Fds /\ cloexec = FALSE
    /\ syscall_template = get_template(ReadPrefix(file.v))
    /\ gdb_path \in GdbPaths
    /\ cmd = [CommandNew(gdb_path) EXCEPT
                !.args = GdbArgs(env_vars, client, syscall_template,
                                 ProgramPath, gdb_args)]
    /\ image = ExecImage(cmd, client, cloexec)
    /\ exec_err = "none" /\ outcome = "replaced" /\ exit_code = -1
    /\ trace = <<"parse_env", "bind", "accept", "get_template",
                 "clear_cloexec", "which", "build_gdb", "exec">>
    /\ CpuIdle

NextRoutine ==
    \/ RoutineStart
    \/ StepMovImm \/ StepMovOp
    \/ StepSyscall64 \/ StepSyscall32Compat \/ StepSyscall32Fault
    \/ RoutineEnd

SpecRoutine == InitRoutine /\ [][NextRoutine]_vars

\* ================================================================= claims
Terminal == {"replaced", "exited", "panicked"}
Count(seq, x) == Cardinality({i \in 1..Len(seq) : seq[i] = x})
TextOf(arg) == [i \in 1..Len(arg) |-> arg[i].s]

\* C1: on the debug path, every run that ends with DebuggerNotFound still has
\* the close-on-exec attribute of the connected descriptor set.
C1_DebuggerNotFoundBeforeMutation ==
    outcome = "DebuggerNotFound" => cloexec

\* C2: when the image replacement call fails, the process ends with an error
\* outcome, never with success.
C2_ExecFailureIsFatal ==
    exec_err # "none" => (outcome # "Ok" /\ exit_code # 0)

\* C3: for every 5-byte prefix, the detector selects the 32-bit routine exactly
\* for [0x7f,'E','L','F',1], the 64-bit routine exactly for
\* [0x7f,'E','L','F',2], and otherwise fails with UnsupportedExecutable
\* without returning a routine.
C3_DetectorClassifies ==
    (pc # "get_template" /\ file.some /\ Len(file.v) = 5) =>
        /\ (syscall_template = "X86_TEMPLATE") <=> (file.v = <<127, 69, 76, 70, 1>>)
        /\ (syscall_template = "AMD64_TEMPLATE") <=> (file.v = <<127, 69, 76, 70, 2>>)
        /\ IF file.v \in {<<127, 69, 76, 70, 1>>, <<127, 69, 76, 70, 2>>}
           THEN pc = "clear_cloexec" /\ outcome = "running"
           ELSE /\ pc = "panicked" /\ outcome = "UnsupportedExecutable"
                /\ syscall_template = "none"

C3_Witness ==
    /\ pc = "panicked" /\ outcome = "UnsupportedExecutable"
    /\ file.some /\ file.v = <<0, 69, 76, 70, 2>>
    /\ trace[Len(trace)] = "get_template"

\* C4: at most one connection is ever accepted in a run; every state past
\* accept has exactly one, and a further peer stays unanswered.
C4_SingleAccept ==
    /\ accepted <= 1
    /\ Count(trace, "accept") = accepted
    /\ (pc \in {"get_template", "clear_cloexec", "which", "build_gdb",
                "direct", "exec", "replaced", "exited"} => accepted = 1)
    /\ (pc \in Terminal => ~ENABLED AcceptOk)

C4_Witness ==
    pc \in Terminal /\ accepted = 1 /\ pending = 1

\* an env spec in which every ';'-separated entry holds exactly one '=',
\* stated on the positions of the separators
WellFormedSpec(str) ==
    LET seps == {0, Len(str) + 1} \cup {i \in 1..Len(str) : str[i] = ";"}
    IN \A a \in seps : \A b \in seps :
          (a < b /\ ~\E c \in seps : a < c /\ c < b) =>
              Cardinality({i \in (a + 1)..(b - 1) : str[i] = "="}) = 1

NoSpaces(str) == SelectSeq(str, LAMBDA c : c # " ")

RECURSIVE JoinPairs(_)
JoinPairs(pairs) ==
    IF Len(pairs) = 0 THEN <<>>
    ELSE Head(pairs)[1] \o <<"=">> \o Head(pairs)[2]
         \o (IF Len(pairs) = 1 THEN <<>> ELSE <<";">> \o JoinPairs(Tail(pairs)))

Clean(word) ==
    /\ \A i \in 1..Len(word) : word[i] \notin {"=", ";"}
    /\ Len(word) > 0 => (word[1] # " " /\ word[Len(word)] # " ")

\* C5: an env spec whose every entry holds exactly one '=' parses to one
\* (key, value) pair per entry, in order ("A=1;B=2" gives (A,1),(B,2)); any
\* other env spec ends the run with MalformedEnvSpec, no socket bound and no
\* connection accepted.
C5_EnvParsing ==
    (pc # "main" /\ env.some) =>
        IF WellFormedSpec(env.v)
        THEN /\ outcome # "MalformedEnvSpec"
             /\ Len(env_vars) = Count(env.v, ";") + 1
             /\ NoSpaces(JoinPairs(env_vars)) = NoSpaces(env.v)
             /\ \A i \in 1..Len(env_vars) :
                    Clean(env_vars[i][1]) /\ Clean(env_vars[i][2])
             /\ env.v = <<"A", "=", "1", ";", "B", "=", "2">> =>
                    env_vars = << <<<<"A">>, <<"1">>>>, <<<<"B">>, <<"2">>>> >>
        ELSE /\ pc = "panicked" /\ outcome = "MalformedEnvSpec"
             /\ ~bound /\ accepted = 0
             /\ Count(trace, "bind") = 0 /\ Count(trace, "accept") = 0

C5_Witness ==
    /\ env = Some(<<"A", "=", ";", " ", "=">>)
    /\ pc = "exec"
    /\ env_vars = << <<<<"A">>, <<>>>>, <<<<>>, <<>>>> >>

\* C6: the debugger argument list is: one environment directive per pair in
\* order, the start directive, the compile directive, the target path, and,
\* only if extra debugger arguments were given, "--" and those arguments last.
C6_GdbArgumentOrder ==
    (gdb /\ pc \in {"exec", "replaced", "exited"}) =>
        LET a == cmd.args
            n == Len(env_vars)
        IN /\ Len(a) = 2 * n + 5 + (IF gdb_args.some THEN 2 ELSE 0)
           /\ \A i \in 1..n :
                 /\ TextOf(a[2 * i - 1]) = <<"-ex">>
                 /\ TextOf(a[2 * i]) =
                        <<"set env ">> \o env_vars[i][1] \o <<"=">> \o env_vars[i][2]
           /\ TextOf(a[2 * n + 1]) = <<"-ex">>
           /\ TextOf(a[2 * n + 2]) = <<"start">>
           /\ TextOf(a[2 * n + 3]) = <<"-ex">>
           /\ TextOf(a[2 * n + 4])[1] = "compile code -raw -- "
           /\ TextOf(a[2 * n + 5]) = ProgramPath
           /\ IF gdb_args.some
              THEN /\ TextOf(a[2 * n + 6]) = <<"--">>
                   /\ TextOf(a[2 * n + 7]) = gdb_args.v
              ELSE \A i \in 1..Len(a) : TextOf(a[i]) # <<"--">>
           /\ image # NoImage => image.argv = <<cmd.program>> \o a

C6_Witness ==
    /\ gdb /\ pc = "replaced" /\ Len(env_vars) = 2
    /\ gdb_args.some /\ gdb_args.v # <<>>

\* the routine text of a class with its newlines taken out, walked in step
RECURSIVE SameSkippingNL(_, _)
SameSkippingNL(rest, tmpl) ==
    IF Len(tmpl) = 0 THEN Len(rest) = 0
    ELSE IF Head(tmpl).k = "nl" THEN SameSkippingNL(rest, Tail(tmpl))
    ELSE /\ Len(rest) > 0
         /\ Head(rest) = Head(tmpl)
         /\ SameSkippingNL(Tail(rest), Tail(tmpl))

CallNumbers(frag) ==
    {frag[i].n : i \in {j \in 1..Len(frag) :
                          frag[j].k = "mov_imm" /\ frag[j].s \in {"rax", "eax"}}}

\* C7: the injected fragment is the declaration binding the accepted
\* connection's descriptor number, immediately followed by the routine of the
\* detected class without newlines; a 64-bit header gives call number 33 and
\* never 63, a 32-bit header the reverse.
C7_InjectedFragment ==
    (gdb /\ pc \in {"exec", "replaced", "exited"}) =>
        LET frag == Tail(cmd.args[2 * Len(env_vars) + 4])
            d == IF client < 10 THEN 1 ELSE 2
        IN /\ frag[1] = Txt("int fd = ")
           /\ \A j \in 2..(1 + d) : IsDigit(frag[j].s)
           /\ frag[2].s # "0"
           /\ frag[2 + d] = Txt(";")
           /\ ParseInt(frag, 2, 0) = client
           /\ SameSkippingNL(SubSeq(frag, 3 + d, Len(frag)),
                             IF file.v[5] = 1 THEN X86_TEMPLATE ELSE AMD64_TEMPLATE)
           /\ file.v[5] = 2 => CallNumbers(frag) = {33}
           /\ file.v[5] = 1 => CallNumbers(frag) = {63}

C7_Witness ==
    /\ gdb /\ pc = "replaced" /\ file = Some(<<127, 69, 76, 70, 2>>)
    /\ client = 12
    /\ HasFragment(image) /\ DeclaredFd(InjectedFragment(image)) = 12

\* Linux: dup2 is call 63 on i386, entered by int $0x80 with arguments in
\* ebx, ecx; it is call 33 on x86-64, entered by syscall with arguments in
\* rdi, rsi.
Dup2Call(c, fd, slot) ==
    [nr |-> IF c = 1 THEN 63 ELSE 33, a1 |-> fd, a2 |-> slot,
     via |-> IF c = 1 THEN "int $0x80" ELSE "syscall"]

\* C8: each routine, run with fd bound, makes exactly three kernel calls, each
\* the architecture's duplicate-descriptor call with fd as source and targets
\* 0, 1, 2 in turn, with the architecture's argument registers and kernel-entry
\* instruction.
C8_RoutineDuplicatesOntoStdio ==
    cpu \in {"done", "fault"} =>
        /\ cpu = "done"
        /\ calls = <<Dup2Call(class, client, 0), Dup2Call(class, client, 1),
                     Dup2Call(class, client, 2)>>

\* C9: on the non-debug path the new image has stdin, stdout and stderr on the
\* accepted connection, every environment pair applied, no argument besides
\* its own path, the debugger arguments ignored; the detector, the debugger
\* lookup and the close-on-exec change never run.
C9_DirectPath ==
    (~gdb /\ pc \in {"exec", "replaced", "exited"}) =>
        /\ cmd.stdin = client /\ cmd.stdout = client /\ cmd.stderr = client
        /\ cmd.args = <<>>
        /\ TextOf(cmd.program) = ProgramPath
        /\ DOMAIN cmd.envs = {env_vars[i][1] : i \in 1..Len(env_vars)}
        /\ \A i \in 1..Len(env_vars) :
              (\A j \in (i + 1)..Len(env_vars) : env_vars[j][1] # env_vars[i][1])
                  => cmd.envs[env_vars[i][1]] = env_vars[i][2]
        /\ \A i \in 1..Len(trace) :
              trace[i] \notin {"get_template", "which", "clear_cloexec", "build_gdb"}
        /\ cloexec /\ syscall_template = "none" /\ gdb_path = <<>>
        /\ pc = "replaced" =>
              /\ image.stdio = <<"conn", "conn", "conn">>
              /\ image.argv = <<cmd.program>>
              /\ image.envs = cmd.envs

C9_Witness ==
    /\ ~gdb /\ pc = "replaced" /\ gdb_args.some /\ gdb_args.v # <<>>
    /\ Len(env_vars) = 2 /\ env_vars[1][1] # env_vars[2][1]
    /\ image.stdio = <<"conn", "conn", "conn">>

\* C10: on the debug path the close-on-exec attribute is cleared exactly once
\* and immediately before the replacement: cleared when the replacement is
\* reached, and neither architecture detection nor the debugger lookup runs
\* after the clearing.
C10_ClearedJustBeforeExec ==
    gdb =>
        /\ (pc \in {"exec", "replaced", "exited"} =>
               ~cloexec /\ Count(trace, "clear_cloexec") = 1)
        /\ \A i \in 1..Len(trace) : \A j \in (i + 1)..Len(trace) :
              trace[i] = "clear_cloexec" => trace[j] \notin {"get_template", "which"}

====
